---- MODULE Spec2Model ----
(***************************************************************************)
(* Model of the baby tracker's event API (src/app.py): the events table,   *)
(* the sleep toggle, the append handlers, the status projection and the    *)
(* 24 hour summary.                                                        *)
(*                                                                         *)
(* Time is counted in minutes since midnight of day 0; datetime.now() is   *)
(* the variable clock, which never decreases and which two requests may    *)
(* read at the same instant.  Under Spec the requests are                  *)
(* served one at a time, each handler one step.  Under SpecConc two        *)
(* threads serve requests, and api_sleep_toggle, which reads the table and *)
(* then writes it, is split at its database round trips.                   *)
(***************************************************************************)
EXTENDS Integers, Sequences, FiniteSets, TLC

\* ------------------------------------------------------------------ bounds

\* The events table holds at most this many rows.
MaxEvents == 3

\* The request threads.
Procs == {"a", "b"}

\* The instants datetime.now() returns: 06:59, 07:00 and 19:00 of day 0 and
\* 07:00 of day 1.
Instants == {419, 420, 1140, 1860}

\* ------------------------------------------------------------- the table

\* A NULL column (value, value_secondary, end_time).
NULL == -1

\* A row of the events table (the note column, which only api_note writes,
\* is left out).
Event(id, type, subtype, value, value_secondary, start_time, end_time) ==
    [id |-> id, type |-> type, subtype |-> subtype, value |-> value,
     value_secondary |-> value_secondary, start_time |-> start_time,
     end_time |-> end_time]

\* The result of a query that finds no row (Python's None).
None == Event(0, "", "", NULL, NULL, NULL, NULL)

VARIABLES
    events,      \* the events table, in id order: events[i].id = i
    clock,       \* what datetime.now() returns
    pc,          \* per thread: where its request stands
    now_dt,      \* per thread: api_sleep_toggle's local now_dt
    open_sleep,  \* per thread: api_sleep_toggle's local open_sleep
    resp,        \* the response of the last request that returned
    hist,        \* the last two writing requests that returned, oldest first
    toggles      \* the number of /api/sleep/toggle requests that returned

vars == <<events, clock, pc, now_dt, open_sleep, resp, hist, toggles>>

\* ---------------------------------------------------------------- helpers

Rows(evs) == {evs[i] : i \in 1..Len(evs)}

OfType(evs, ty) == {e \in Rows(evs) : e.type = ty}

\* IsNight with the hour from 7 to 8 taken for night.
IsNightThroughSeven(dt) ==
    LET hour == (dt \div 60) % 24
    IN  hour <= 7 \/ hour >= 19

\* is_night: the hour of the day is before 7 or from 19 on.
IsNight(dt) ==
    LET hour == (dt \div 60) % 24
    IN  hour < 7 \/ hour >= 19

\* .order_by(Event.start_time.desc()).first(): a row of S with the greatest
\* start_time.  The query names no second sort key, so among rows with equal
\* start_time the database may return any; None when S is empty.
FirstByStartDesc(S) ==
    IF S = {} THEN {None}
    ELSE {e \in S : \A f \in S : f.start_time <= e.start_time}

\* Event.query.filter_by(type="sleep", end_time=None)
OpenSleeps(evs) == {e \in OfType(evs, "sleep") : e.end_time = NULL}

\* The query of api_sleep_toggle: the rows it may return.
OpenSleepQuery(evs) == FirstByStartDesc(OpenSleeps(evs))

\* db.session.add(e); db.session.commit() with the next autoincrement id.
Insert(evs, type, subtype, value, value_secondary, start_time) ==
    Append(evs, Event(Len(evs) + 1, type, subtype, value, value_secondary,
                      start_time, NULL))

\* SetEndTime with the wrong column assigned.
SetEndTimeOnStart(evs, id, t) ==
    [i \in 1..Len(evs) |-> IF i = id THEN [evs[i] EXCEPT !.start_time = t]
                           ELSE evs[i]]

\* SetEndTime that classifies the row again, by the time it ends at.
SetEndTimeRestamp(evs, id, t) ==
    [i \in 1..Len(evs) |->
        IF i = id
        THEN [evs[i] EXCEPT !.end_time = t,
                            !.subtype = IF IsNight(t) THEN "night" ELSE "day"]
        ELSE evs[i]]

\* row.end_time = t; db.session.commit(): an UPDATE of the row with that id.
SetEndTime(evs, id, t) ==
    [i \in 1..Len(evs) |-> IF i = id THEN [evs[i] EXCEPT !.end_time = t]
                           ELSE evs[i]]

\* The record kept of a writing request: what it did to which row, how many
\* rows the table had before it and how many of them were open sleeps.
Done(op, status, id, pre) ==
    [op |-> op, status |-> status, id |-> id, n |-> Len(pre),
     nopen |-> Cardinality(OpenSleeps(pre))]

Remember(h, d) == IF Len(h) < 2 THEN Append(h, d) ELSE <<h[2], d>>

AllIdle == \A p \in Procs : pc[p] = "idle"

\* ------------------------------------------------------------------- Init

Init ==
    /\ events = << >>
    /\ clock = 419
    /\ pc = [p \in Procs |-> "idle"]
    /\ now_dt = [p \in Procs |-> NULL]
    /\ open_sleep = [p \in Procs |-> None]
    /\ resp = [op |-> "none"]
    /\ hist = << >>
    /\ toggles = 0

\* ---------------------------------------------------------------- actions

\* Time passes.
Tick ==
    /\ \E t \in Instants : t > clock /\ clock' = t
    /\ UNCHANGED <<events, pc, now_dt, open_sleep, resp, hist, toggles>>

\* The subtype api_sleep_toggle stamps on a new sleep (line 205).
SleepSubtype(dt) == IF IsNight(dt) THEN "night" ELSE "day"

\* api_sleep_toggle, lines 199-202, with now_dt = t and open_sleep = found:
\* close the sleep the query returned.
StopSleep(t, found) ==
    /\ found # None
    /\ events' = SetEndTime(events, found.id, t)
    /\ resp' = [op |-> "toggle", ok |-> TRUE, status |-> "stopped",
                event |-> events'[found.id]]
    /\ hist' = Remember(hist, Done("toggle", "stopped", found.id, events))
    /\ toggles' = toggles + 1

\* StartSleep reached also after a sleep was stopped (no return at line 202).
StartSleepFallThrough(t, found) ==
    /\ Len(events) < MaxEvents
    /\ events' = Insert(events, "sleep", SleepSubtype(t), NULL, NULL, t)
    /\ resp' = [op |-> "toggle", ok |-> TRUE, status |-> "started",
                event |-> events'[Len(events')]]
    /\ hist' = Remember(hist, Done("toggle", "started", Len(events'), events))
    /\ toggles' = toggles + 1

\* api_sleep_toggle, lines 204-209, with now_dt = t and open_sleep = found:
\* start a new sleep.
StartSleep(t, found) ==
    /\ found = None
    /\ Len(events) < MaxEvents
    /\ events' = Insert(events, "sleep", SleepSubtype(t), NULL, NULL, t)
    /\ resp' = [op |-> "toggle", ok |-> TRUE, status |-> "started",
                event |-> events'[Len(events')]]
    /\ hist' = Remember(hist, Done("toggle", "started", Len(events'), events))
    /\ toggles' = toggles + 1

\* api_sleep_toggle served alone: the clock read, the query and the write.
ToggleSleep ==
    /\ \E found \in OpenSleepQuery(events) :
          StopSleep(clock, found) \/ StartSleep(clock, found)
    /\ UNCHANGED <<clock, pc, now_dt, open_sleep>>

\* api_sleep_toggle in a thread, line 192: now_dt = now()
ToggleBegin(p) ==
    /\ pc[p] = "idle"
    /\ pc' = [pc EXCEPT ![p] = "query"]
    /\ now_dt' = [now_dt EXCEPT ![p] = clock]
    /\ UNCHANGED <<events, clock, open_sleep, resp, hist, toggles>>

\* api_sleep_toggle in a thread, lines 193-197: the query for an open sleep
ToggleQuery(p) ==
    /\ pc[p] = "query"
    /\ \E e \in OpenSleepQuery(events) : open_sleep' = [open_sleep EXCEPT ![p] = e]
    /\ pc' = [pc EXCEPT ![p] = "write"]
    /\ UNCHANGED <<events, clock, now_dt, resp, hist, toggles>>

\* api_sleep_toggle in a thread, lines 199-209: the write and the response
ToggleWrite(p) ==
    /\ pc[p] = "write"
    /\ StopSleep(now_dt[p], open_sleep[p]) \/ StartSleep(now_dt[p], open_sleep[p])
    /\ pc' = [pc EXCEPT ![p] = "idle"]
    /\ now_dt' = [now_dt EXCEPT ![p] = NULL]
    /\ open_sleep' = [open_sleep EXCEPT ![p] = None]
    /\ UNCHANGED clock

\* An append handler's insert, commit and response.
AppendEvent(op, type, subtype, value, value_secondary) ==
    /\ Len(events) < MaxEvents
    /\ events' = Insert(events, type, subtype, value, value_secondary, clock)
    /\ resp' = [op |-> op, ok |-> TRUE, event |-> events'[Len(events')]]
    /\ hist' = Remember(hist, Done(op, "added", Len(events'), events))
    /\ UNCHANGED <<clock, pc, now_dt, open_sleep, toggles>>

\* A request answered 400: nothing is written.
Reject(op) ==
    /\ resp' = [op |-> op, ok |-> FALSE]
    /\ UNCHANGED <<events, clock, pc, now_dt, open_sleep, hist, toggles>>

\* api_feed: data.get("subtype") or "bottle"
Feed(subtype, amount, duration) ==
    AppendEvent("feed", "feed", IF subtype = "" THEN "bottle" ELSE subtype,
                amount, duration)

\* api_diaper: data.get("subtype") or "pee"
Diaper(subtype) ==
    AppendEvent("diaper", "diaper", IF subtype = "" THEN "pee" ELSE subtype,
                NULL, NULL)

\* Growth with the weight required (the length alone is refused).
GrowthNeedsWeight(weight, length) ==
    IF weight = NULL
    THEN Reject("growth")
    ELSE AppendEvent("growth", "growth", "measurement", weight, length)

\* api_growth
Growth(weight, length) ==
    IF weight = NULL /\ length = NULL
    THEN Reject("growth")
    ELSE AppendEvent("growth", "growth", "measurement", weight, length)

\* ----------------------------------------------------------------- status

\* datetime.isoformat(): the day, the hour and the minute, as written out.
IsoFormat(dt) == <<dt \div 1440, (dt \div 60) % 24, dt % 60>>

\* What the response holds for a time or an event that is None (JSON null).
NoTime == << >>
NoFmt == [type |-> "", subtype |-> "", when |-> NoTime]

\* api_status.fmt_event
FmtEvent(e) ==
    IF e = None THEN NoFmt
    ELSE [type |-> e.type, subtype |-> e.subtype, when |-> IsoFormat(e.start_time)]

\* Event.query.filter_by(type=ty).order_by(Event.start_time.desc()).first()
LastOfType(evs, ty) == FirstByStartDesc(OfType(evs, ty))

\* bool(last_sleep and last_sleep.end_time is None)
IsSleeping(last_sleep) == last_sleep # None /\ last_sleep.end_time = NULL

\* LastSleepStart given only while the baby sleeps.
LastSleepStartIfSleeping(last_sleep) ==
    IF IsSleeping(last_sleep) THEN IsoFormat(last_sleep.start_time) ELSE NoTime

\* last_sleep.start_time.isoformat() if last_sleep else None
LastSleepStart(last_sleep) ==
    IF last_sleep # None THEN IsoFormat(last_sleep.start_time) ELSE NoTime

\* The response of api_status for the rows its four queries returned; picked
\* names those rows (the handler's locals), 0 for None.
StatusOf(last_sleep, last_feed, last_diaper, last_growth) ==
    [op |-> "status", ok |-> TRUE,
     is_sleeping |-> IsSleeping(last_sleep),
     last_sleep_start |-> LastSleepStart(last_sleep),
     last_feed |-> FmtEvent(last_feed),
     last_diaper |-> FmtEvent(last_diaper),
     last_growth |-> FmtEvent(last_growth),
     picked |-> [sleep |-> last_sleep.id, feed |-> last_feed.id,
                 diaper |-> last_diaper.id, growth |-> last_growth.id]]

\* The responses api_status may give on a table.
StatusResults(evs) ==
    {StatusOf(ls, lf, ld, lg) :
        ls \in LastOfType(evs, "sleep"), lf \in LastOfType(evs, "feed"),
        ld \in LastOfType(evs, "diaper"), lg \in LastOfType(evs, "growth")}

\* api_status
Status ==
    /\ \E r \in StatusResults(events) : resp' = r
    /\ UNCHANGED <<events, clock, pc, now_dt, open_sleep, hist, toggles>>

\* ---------------------------------------------------------------- summary

\* timedelta(hours=24)
WindowHours == 24

\* since = now_dt - timedelta(hours=24)
Since(now) == now - WindowHours * 60

\* InWindow with the boundary left out.
InWindowStrict(e, since) == e.start_time > since

\* .filter(Event.start_time >= since)
InWindow(e, since) == e.start_time >= since

\* Event.query.filter_by(type=ty).filter(Event.start_time >= since).all()
TypeInWindow(evs, ty, since) == {e \in OfType(evs, ty) : InWindow(e, since)}

\* Duration with an open sleep counted as empty.
DurationClosedOnly(s, now) ==
    IF s.end_time = NULL THEN 0 ELSE s.end_time - s.start_time

\* (end - start) with end = s.end_time or now_dt, in minutes
Duration(s, now) == (IF s.end_time = NULL THEN now ELSE s.end_time) - s.start_time

\* SplitKey taken from the end of the sleep.
SplitKeyByEnd(s) == IsNight(IF s.end_time = NULL THEN s.start_time ELSE s.end_time)

\* The bucket a sleep is added to: is_night(start) (line 383).
SplitKey(s) == IsNight(s.start_time)

RECURSIVE SumDurations(_, _)
SumDurations(S, now) ==
    IF S = {} THEN 0
    ELSE LET s == CHOOSE x \in S : TRUE
         IN  Duration(s, now) + SumDurations(S \ {s}, now)

\* night_hours and day_hours after the loop of lines 377-386, in minutes.
NightMinutes(sleeps, now) == SumDurations({s \in sleeps : SplitKey(s)}, now)
DayMinutes(sleeps, now) == SumDurations({s \in sleeps : ~SplitKey(s)}, now)

\* round(minutes / 60, 1), in tenths of an hour.  A value halfway between two
\* tenths goes where its floating point representation falls: either way.
RoundTenths(m) ==
    LET q == m \div 6
        r == m % 6
    IN  IF r < 3 THEN {q} ELSE IF r > 3 THEN {q + 1} ELSE {q, q + 1}

\* FeedCount with a feed of an unknown subtype counted as a bottle.
FeedCountDefaultBottle(feeds, k) ==
    Cardinality({f \in feeds :
        \/ f.subtype = k
        \/ k = "bottle" /\ f.subtype \notin {"bottle", "breast", "solid"}})

\* feed_counts[k] after the loop of lines 395-397.
FeedCount(feeds, k) == Cardinality({f \in feeds : f.subtype = k})

\* strftime("%d-%m"), day 0 being 1 January (within January).
DayMonth(dt) == <<((dt \div 1440) % 31) + 1, 1>>

\* Event.query.filter_by(type="growth").order_by(Event.start_time.asc()).all():
\* the orders the database may return the growth rows in.
GrowthOrders(evs) ==
    LET G == OfType(evs, "growth")
        n == Cardinality(G)
    IN  {s \in [1..n -> G] :
            /\ \A i, j \in 1..n : i # j => s[i] # s[j]
            /\ \A i, j \in 1..n : i < j => s[i].start_time <= s[j].start_time}

\* HasValue with a length taken for a measurement too.
HasAnyMeasure(e) == e.value # NULL \/ e.value_secondary # NULL

\* The loop of lines 406-415.
HasValue(e) == e.value # NULL
GrowthPoint(e) == [date |-> DayMonth(e.start_time), weight |-> e.value]

GrowthSeries(rows) ==
    LET kept == SelectSeq(rows, HasValue)
    IN  [i \in 1..Len(kept) |-> GrowthPoint(kept[i])]

\* The responses api_summary may give on a table at now_dt = now; sleeps and
\* feeds name the rows its two window queries returned (the handler's locals).
SummaryResults(evs, now) ==
    LET since == Since(now)
        sleeps == TypeInWindow(evs, "sleep", since)
        feeds == TypeInWindow(evs, "feed", since)
    IN  {[op |-> "summary", ok |-> TRUE, now |-> now,
          sleep_dist |-> <<d, n>>,
          feed_dist |-> <<FeedCount(feeds, "bottle") + FeedCount(feeds, "breast"),
                          FeedCount(feeds, "solid")>>,
          growth |-> GrowthSeries(g),
          sleeps |-> {s.id : s \in sleeps},
          feeds |-> {f.id : f \in feeds}] :
            d \in RoundTenths(DayMinutes(sleeps, now)),
            n \in RoundTenths(NightMinutes(sleeps, now)),
            g \in GrowthOrders(evs)}

\* The window lengths a caller may ask for, in hours.
AskedHours == {24, 168}

\* api_summary; the handler reads no request argument, so the window length
\* the caller asks for changes nothing.
Summary(asked) ==
    /\ asked \in AskedHours
    /\ \E r \in SummaryResults(events, clock) : resp' = r
    /\ UNCHANGED <<events, clock, pc, now_dt, open_sleep, hist, toggles>>

\* ------------------------------------------------------------- the system

\* The append requests and their inputs.
Appends ==
    \/ \E st \in {"", "solid"} : Feed(st, IF st = "" THEN 120 ELSE NULL, NULL)
    \/ Diaper("")
    \/ \E m \in {<<NULL, NULL>>, <<5, NULL>>} : Growth(m[1], m[2])

\* The read-only requests.
Reads ==
    \/ Status
    \/ \E asked \in AskedHours : Summary(asked)

\* Requests served one at a time.
Next ==
    \/ Tick
    \/ ToggleSleep
    \/ Appends
    \/ Reads

Spec == Init /\ [][Next]_vars

\* toggleNightWake, which the source does not hold, as section 4.2 of the
\* specification describes it: the most recent night_wake Event (start_time
\* descending, then id descending) is closed if it is open, and otherwise a
\* new one is created.
ToggleNightWake ==
    LET W == OfType(events, "night_wake")
        last == IF W = {} THEN None
                ELSE CHOOSE e \in W : \A f \in W :
                        \/ f.start_time < e.start_time
                        \/ f.start_time = e.start_time /\ f.id <= e.id
    IN  /\ IF last # None /\ last.end_time = NULL
           THEN /\ events' = SetEndTime(events, last.id, clock)
                /\ resp' = [op |-> "nightwake", ok |-> TRUE, status |-> "stopped",
                            event |-> events'[last.id]]
                /\ hist' = Remember(hist, Done("nightwake", "stopped", last.id, events))
           ELSE /\ Len(events) < MaxEvents
                /\ events' = Insert(events, "night_wake", "night_wake", NULL, NULL, clock)
                /\ resp' = [op |-> "nightwake", ok |-> TRUE, status |-> "started",
                            event |-> events'[Len(events')]]
                /\ hist' = Remember(hist, Done("nightwake", "started", Len(events'), events))
        /\ UNCHANGED <<clock, pc, now_dt, open_sleep, toggles>>

\* Requests served one at a time, the night wake toggle among them.
NextNW ==
    \/ Tick
    \/ ToggleSleep
    \/ ToggleNightWake
    \/ Appends

SpecNW == Init /\ [][NextNW]_vars

\* Requests served by concurrent threads.
NextConc ==
    \/ Tick
    \/ \E p \in Procs : ToggleBegin(p)
    \/ \E p \in Procs : ToggleQuery(p)
    \/ \E p \in Procs : ToggleWrite(p)

SpecConc == Init /\ [][NextConc]_vars

\* ------------------------------------------------------------- properties

\* The rows of a type that are open intervals.
OpenOf(ty) == {e \in Rows(events) : e.type = ty /\ e.end_time = NULL}

\* The last writing request that returned, and the one before it.
LastDone == hist[Len(hist)]
TwoToggles ==
    /\ Len(hist) = 2
    /\ hist[1].op = "toggle" /\ hist[2].op = "toggle"
    /\ hist[1].nopen = 0

\* C1: with requests served one at a time (sleep toggles, night wake toggles
\* and appends in any order, from an empty table), at most one sleep and at
\* most one night_wake Event has end_time = NULL.
C1_SingleOpenInterval ==
    \A ty \in {"sleep", "night_wake"} : Cardinality(OpenOf(ty)) <= 1

\* A sleep and a night wake are open, after an earlier sleep was closed.
C1_Witness ==
    /\ Cardinality(OpenOf("sleep")) = 1
    /\ Cardinality(OpenOf("night_wake")) = 1
    /\ \E e \in Rows(events) : e.type = "sleep" /\ e.end_time # NULL

\* C2: two sleep toggles served concurrently never leave two sleep Events
\* with end_time = NULL.
C2_NoTwoOpenSleeps ==
    \A e, f \in Rows(events) :
        (e.type = "sleep" /\ f.type = "sleep" /\ e.end_time = NULL /\ f.end_time = NULL)
            => e.id = f.id

\* What two successive sleep toggles from a table with no open sleep leave,
\* but for the order of the sleep's two times: the first started a sleep, the
\* second stopped that same sleep, the table has one row more, and any status
\* response says is_sleeping = false.
TwoTogglesOutcome ==
    /\ hist[1].status = "started" /\ hist[2].status = "stopped"
    /\ hist[2].id = hist[1].id
    /\ hist[1].id = hist[1].n + 1
    /\ Len(events) = hist[1].n + 1
    /\ events[hist[1].id].type = "sleep"
    /\ events[hist[1].id].end_time # NULL
    /\ \A r \in StatusResults(events) : ~r.is_sleeping

\* C3 as stated: after two successive sleep toggles from a table with no open
\* sleep, the one new sleep Event is closed with end_time > start_time.
C3_ClosedStrictlyLater ==
    TwoToggles =>
        /\ TwoTogglesOutcome
        /\ events[hist[1].id].end_time > events[hist[1].id].start_time

\* C3 amended: after two successive sleep toggles from a table with no open
\* sleep, served one at a time, the one new sleep Event is closed with
\* end_time >= start_time, the first toggle answered started, the second
\* stopped, and status says is_sleeping = false.
C3_ClosedNotEarlier ==
    TwoToggles =>
        /\ TwoTogglesOutcome
        /\ events[hist[1].id].end_time >= events[hist[1].id].start_time

\* Two toggles on a table that held a row already, both within one clock
\* instant, and a status response after them.
C3_Witness ==
    /\ TwoToggles
    /\ hist[1].n >= 1
    /\ events[hist[1].id].end_time = events[hist[1].id].start_time
    /\ resp.op = "status" /\ ~resp.is_sleeping

\* C4: after an odd number of sleep toggles served one at a time from the
\* empty table, exactly one sleep Event is open and a status response says
\* is_sleeping = true.
C4_OddTogglesSleeping ==
    toggles % 2 = 1 =>
        /\ Cardinality(OpenOf("sleep")) = 1
        /\ resp.op = "status" => resp.is_sleeping

\* C5: when a sleep toggle has closed the open sleep, no night_wake Event is
\* left open.
C5_NightWakeClosedWithSleep ==
    (hist # << >> /\ LastDone.op = "toggle" /\ LastDone.status = "stopped")
        => OpenOf("night_wake") = {}

\* C6: every Event with an end_time has end_time >= start_time.
C6_EndNotBeforeStart ==
    \A e \in Rows(events) : e.end_time # NULL => e.end_time >= e.start_time

\* The sleep rows with the greatest start_time.
LatestSleeps ==
    {e \in Rows(events) :
        /\ e.type = "sleep"
        /\ \A f \in Rows(events) : f.type = "sleep" => f.start_time <= e.start_time}

\* C7 as stated: a status response gives the open sleep's start_time when
\* is_sleeping is true and null when is_sleeping is false.
C7_StartOnlyWhileSleeping ==
    resp.op = "status" =>
        IF resp.is_sleeping
        THEN \E e \in OpenOf("sleep") : resp.last_sleep_start = IsoFormat(e.start_time)
        ELSE resp.last_sleep_start = NoTime

\* C7 amended: a status response gives the start_time of the sleep Event it
\* took as the most recent one (one with the greatest start_time), open or
\* closed; is_sleeping says whether that Event is open; the start is null
\* exactly when the table holds no sleep Event.
C7_StartOfLastSleep ==
    resp.op = "status" =>
        IF LatestSleeps = {}
        THEN resp.last_sleep_start = NoTime /\ ~resp.is_sleeping
        ELSE \E e \in LatestSleeps :
                /\ resp.picked.sleep = e.id
                /\ resp.last_sleep_start = IsoFormat(e.start_time)
                /\ resp.last_sleep_start # NoTime
                /\ resp.is_sleeping = (e.end_time = NULL)

\* A status response on a table whose sleeps are all closed.
C7_Witness ==
    /\ resp.op = "status"
    /\ ~resp.is_sleeping
    /\ LatestSleeps # {}
    /\ resp.last_sleep_start = IsoFormat(events[resp.picked.sleep].start_time)

\* The row of a type that comes first by start_time descending, then id
\* descending; 0 when there is none.
GreatestId(ty) ==
    LET S == {e \in Rows(events) : e.type = ty}
    IN  IF S = {} THEN 0
        ELSE (CHOOSE e \in S : \A f \in S :
                \/ f.start_time < e.start_time
                \/ f.start_time = e.start_time /\ f.id <= e.id).id

\* C8: the latest Event of a type that a status response rests on is the one
\* first by start_time descending and then id descending.
C8_TiesByIdDescending ==
    resp.op = "status" =>
        \A ty \in {"sleep", "feed", "diaper", "growth"} :
            resp.picked[ty] = GreatestId(ty)

\* The sleeps a summary at now counts, and their minutes by stored subtype.
CountedSleeps(now) ==
    {e \in Rows(events) : e.type = "sleep" /\ e.start_time >= now - 24 * 60}
MinutesOfSubtype(now, subtype) ==
    SumDurations({e \in CountedSleeps(now) : e.subtype = subtype}, now)

\* C9: the day and night hours of a summary response are the durations of
\* the counted sleeps summed by each sleep's stored subtype.
C9_SplitByStoredSubtype ==
    resp.op = "summary" =>
        /\ resp.sleep_dist[1] \in RoundTenths(MinutesOfSubtype(resp.now, "day"))
        /\ resp.sleep_dist[2] \in RoundTenths(MinutesOfSubtype(resp.now, "night"))

\* A summary with hours in both buckets, one of them from a sleep that began
\* by day and ended by night.
C9_Witness ==
    /\ resp.op = "summary"
    /\ resp.sleep_dist[1] > 0 /\ resp.sleep_dist[2] > 0
    /\ \E e \in CountedSleeps(resp.now) :
          e.subtype = "day" /\ e.end_time # NULL /\ IsNight(e.end_time)

\* The ids of the rows of a type that started at or after a time.
StartedFrom(ty, since) ==
    {e.id : e \in {x \in Rows(events) : x.type = ty /\ x.start_time >= since}}

ElapsedMinutes(e, now) == IF e.end_time = NULL THEN now - e.start_time
                          ELSE e.end_time - e.start_time

RECURSIVE TotalElapsed(_, _)
TotalElapsed(S, now) ==
    IF S = {} THEN 0
    ELSE LET e == CHOOSE x \in S : TRUE
         IN  ElapsedMinutes(e, now) + TotalElapsed(S \ {e}, now)

\* Whether a time of day lies in the night: before 07:00 or from 19:00 on.
NightTime(t) == t % 1440 < 420 \/ t % 1440 >= 1140

\* C11: in a summary response, an open sleep in the window adds now -
\* start_time to its bucket and a closed one end_time - start_time.
C11_OpenSleepCountsToNow ==
    resp.op = "summary" =>
        LET S == CountedSleeps(resp.now)
        IN  /\ resp.sleep_dist[1] \in
                 RoundTenths(TotalElapsed({e \in S : ~NightTime(e.start_time)}, resp.now))
            /\ resp.sleep_dist[2] \in
                 RoundTenths(TotalElapsed({e \in S : NightTime(e.start_time)}, resp.now))

\* A summary while one night sleep is open and nothing else is counted: its
\* elapsed 12 hours are the night hours and the day hours are 0.
C11_Witness ==
    /\ resp.op = "summary"
    /\ \E e \in CountedSleeps(resp.now) :
          /\ CountedSleeps(resp.now) = {e}
          /\ e.end_time = NULL /\ e.subtype = "night"
          /\ resp.now - e.start_time = 720
          /\ resp.sleep_dist = <<0, 120>>

\* ------------------------------------------------------- the feeding chart

\* The subtypes a caller of api_feed sends: none, the three the summary
\* counts, and one it does not know.
FeedSubtypes == {"", "bottle", "breast", "solid", "snack"}

\* Feeds and diapers are logged and the summary is read, one request at a time.
NextFeeds ==
    \/ Tick
    \/ \E st \in FeedSubtypes : Feed(st, NULL, NULL)
    \/ Diaper("poop")
    \/ \E asked \in AskedHours : Summary(asked)

SpecFeeds == Init /\ [][NextFeeds]_vars

\* The rows that are feeds of one of the given subtypes begun in the 24
\* hours up to now.
FeedsOf(subtypes, now) ==
    {e \in Rows(events) :
        /\ e.type = "feed"
        /\ e.start_time >= now - 24 * 60
        /\ e.subtype \in subtypes}

\* C12: the feed distribution of a summary response is the pair of the
\* number of feeds in the window with subtype bottle or breast and the number
\* with subtype solid; no other row is counted.
C12_FeedDistribution ==
    resp.op = "summary" =>
        resp.feed_dist = <<Cardinality(FeedsOf({"bottle", "breast"}, resp.now)),
                           Cardinality(FeedsOf({"solid"}, resp.now))>>

\* A summary over a bottle, a breast and a solid feed in the window: [2, 1].
C12_Witness ==
    /\ resp.op = "summary"
    /\ resp.feed_dist = <<2, 1>>
    /\ \A k \in {"bottle", "breast", "solid"} :
          \E e \in Rows(events) : e.type = "feed" /\ e.subtype = k /\ e.id \in resp.feeds

\* A summary that leaves a feed of an unknown subtype and a diaper, both in
\* the window, out of both counts.
C12_Uncounted ==
    /\ resp.op = "summary"
    /\ resp.feed_dist = <<1, 0>>
    /\ \E e \in Rows(events) : e.type = "feed" /\ e.subtype = "snack" /\ e.id \in resp.feeds
    /\ \E e \in Rows(events) : e.type = "diaper" /\ e.start_time >= resp.now - 24 * 60

\* -------------------------------------------------------- the growth curve

\* The weight and length a caller of api_growth sends, NULL for an absent one.
GrowthInputs == {<<NULL, NULL>>, <<5, NULL>>, <<NULL, 60>>, <<6, 61>>}

\* Measurements are logged and the summary is read, one request at a time.
NextGrowth ==
    \/ Tick
    \/ \E m \in GrowthInputs : Growth(m[1], m[2])
    \/ \E asked \in AskedHours : Summary(asked)

SpecGrowth == Init /\ [][NextGrowth]_vars

\* What a growth request with the given weight and length must do: answer
\* an error and leave the table as it is when both are absent, and otherwise
\* add one growth row that holds them, after the rows that were there.
GrowthOutcome(weight, length) ==
    IF weight = NULL /\ length = NULL
    THEN ~resp'.ok /\ events' = events
    ELSE /\ resp'.ok
         /\ Len(events') = Len(events) + 1
         /\ SubSeq(events', 1, Len(events)) = events
         /\ events'[Len(events')].type = "growth"
         /\ events'[Len(events')].value = weight
         /\ events'[Len(events')].value_secondary = length
         /\ resp'.event = events'[Len(events')]

\* The point a growth row with a weight gives in the growth series.
PointOf(e) == [date |-> <<(e.start_time \div 1440) + 1, 1>>, weight |-> e.value]

\* The growth rows with a weight.
Weighed == {e \in Rows(events) : e.type = "growth" /\ e.value # NULL}

\* C13: a growth request with neither weight nor length is refused and
\* leaves the table unchanged; one with at least one of them adds exactly one
\* growth Event; and every growth Event with a weight has its point in the
\* growth series of a summary response.
C13_GrowthNeedsAMeasure ==
    /\ [][\A m \in GrowthInputs : Growth(m[1], m[2]) => GrowthOutcome(m[1], m[2])]_vars
    /\ [](resp.op = "summary" =>
            \A e \in Weighed : \E i \in DOMAIN resp.growth : resp.growth[i] = PointOf(e))

\* A summary whose growth series holds the point of a measurement that gave
\* a weight of 5 and no length.
C13_Witness ==
    /\ resp.op = "summary"
    /\ \E e \in Weighed :
          /\ e.value = 5 /\ e.value_secondary = NULL
          /\ \E i \in DOMAIN resp.growth : resp.growth[i] = PointOf(e)

\* A growth request refused on a table that holds growth rows.
C13_Refused ==
    /\ resp = [op |-> "growth", ok |-> FALSE]
    /\ \E e \in Rows(events) : e.type = "growth"

\* The orders of the weighed growth rows that ascend by start_time.
WeighedAscending ==
    LET n == Cardinality(Weighed)
    IN  {s \in [1..n -> Weighed] :
            /\ \A e \in Weighed : \E i \in 1..n : s[i] = e
            /\ \A i \in 1..n : \A j \in i..n : s[i].start_time <= s[j].start_time}

\* C14: the growth series of a summary response holds exactly the growth
\* Events with a weight, those older than the window too, by ascending
\* start_time; a growth Event without a weight is left out.
C14_GrowthSeries ==
    resp.op = "summary" =>
        \E s \in WeighedAscending :
            resp.growth = [i \in 1..Cardinality(Weighed) |-> PointOf(s[i])]

\* A summary whose series holds a weight taken more than 24 hours before and
\* a later one, in that order, and leaves out a measurement of length alone.
C14_Witness ==
    /\ resp.op = "summary"
    /\ Len(resp.growth) = 2
    /\ resp.growth[1].date # resp.growth[2].date
    /\ \E e \in Weighed : e.start_time < resp.now - 24 * 60 /\ resp.growth[1] = PointOf(e)
    /\ \E e \in Rows(events) :
          e.type = "growth" /\ e.value = NULL /\ e.value_secondary # NULL

\* ------------------------------------------------------- any time of day

\* The last minute of the two days the clock may start in.
MaxMinute == 2879

\* The server is started at any minute of two days, on an empty table.
InitAnyTime ==
    /\ events = << >>
    /\ clock \in 0..MaxMinute
    /\ pc = [p \in Procs |-> "idle"]
    /\ now_dt = [p \in Procs |-> NULL]
    /\ open_sleep = [p \in Procs |-> None]
    /\ resp = [op |-> "none"]
    /\ hist = << >>
    /\ toggles = 0

\* The sleep is toggled and the summary read at that minute.
NextAnyTime ==
    \/ ToggleSleep
    \/ \E asked \in AskedHours : Summary(asked)

SpecAnyTime == InitAnyTime /\ [][NextAnyTime]_vars

\* C15: the classification a sleep toggle stamps at a time is night iff the
\* hour is before 7 or from 19 on, and day otherwise: night at 06:59, day at
\* 07:00, day at 18:59, night at 19:00.
C15_Classify ==
    (resp.op = "toggle" /\ resp.status = "started") =>
        LET t == resp.event.start_time
            label == resp.event.subtype
        IN  /\ label \in {"day", "night"}
            /\ label = "night" <=> NightTime(t)
            /\ t % 1440 = 6 * 60 + 59 => label = "night"
            /\ t % 1440 = 7 * 60 => label = "day"
            /\ t % 1440 = 18 * 60 + 59 => label = "day"
            /\ t % 1440 = 19 * 60 => label = "night"

\* A sleep started at 18:59 and stamped day.
C15_Witness ==
    /\ resp.op = "toggle" /\ resp.status = "started"
    /\ resp.event.start_time = 18 * 60 + 59
    /\ resp.event.subtype = "day"

\* Sleeps started at 06:59, 07:00 and 19:00.
C15_Boundaries ==
    /\ resp.op = "toggle" /\ resp.status = "started"
    /\ resp.event.start_time % 1440 \in {6 * 60 + 59, 7 * 60, 19 * 60}

\* ------------------------------------------- a toggle among several opens

\* Two toggles in threads, and toggles served in one piece beside them; time
\* passes between the requests.
NextHeal ==
    \/ AllIdle /\ Tick
    \/ \E p \in Procs : ToggleBegin(p)
    \/ \E p \in Procs : ToggleQuery(p)
    \/ \E p \in Procs : ToggleWrite(p)
    \/ ToggleSleep

SpecHeal == Init /\ [][NextHeal]_vars

\* C16: a sleep toggle served alone in a state with more than one open sleep
\* leaves at most one sleep open.
C16_ToggleLeavesOneOpen ==
    [][(AllIdle /\ ToggleSleep /\ Cardinality(OpenOf("sleep")) > 1)
          => Cardinality(OpenOf("sleep"))' <= 1]_vars


\* ------------------------------------------------------ the stored subtype

\* C17: every sleep's stored subtype is the classification of its start_time
\* (night before 07:00 and from 19:00, day between), and no step changes the
\* subtype or the start_time a sleep was inserted with.
C17_SubtypeSetOnce ==
    /\ [](\A e \in OfType(events, "sleep") :
             e.subtype = IF NightTime(e.start_time) THEN "night" ELSE "day")
    /\ [][\A i \in 1..Len(events) :
             events[i].type = "sleep" =>
                 /\ events'[i].subtype = events[i].subtype
                 /\ events'[i].start_time = events[i].start_time]_vars

\* A sleep stamped in the day was stopped at night and is still a day sleep.
C17_Witness ==
    \E e \in OfType(events, "sleep") :
        /\ e.end_time # NULL
        /\ ~NightTime(e.start_time) /\ NightTime(e.end_time)
        /\ e.subtype = "day"
        /\ resp.op = "toggle" /\ resp.status = "stopped" /\ resp.event.id = e.id


\* ------------------------------------------------------------ is_sleeping

\* C18: a status response says is_sleeping exactly when some sleep is open.
C18_SleepingIffOpenSleep ==
    resp.op = "status" => (resp.is_sleeping <=> OpenOf("sleep") # {})


\* ------------------------------------------------- what one toggle writes

\* The step sets end_time, and nothing else, on one row that was an open
\* sleep, and leaves every other row as it was.
ClosesOneOpenSleep ==
    /\ Len(events') = Len(events)
    /\ \E i \in 1..Len(events) :
          /\ events[i].type = "sleep" /\ events[i].end_time = NULL
          /\ events'[i].end_time # NULL
          /\ events'[i] = [events[i] EXCEPT !.end_time = events'[i].end_time]
          /\ \A j \in 1..Len(events) : j # i => events'[j] = events[j]

\* The step inserts one open sleep and leaves every other row as it was.
InsertsOneOpenSleep ==
    /\ Len(events') = Len(events) + 1
    /\ events'[Len(events')].type = "sleep"
    /\ events'[Len(events')].end_time = NULL
    /\ \A j \in 1..Len(events) : events'[j] = events[j]

\* C19: each sleep toggle either sets end_time on exactly one sleep that was
\* open or inserts exactly one open sleep, leaving every other row unchanged;
\* and no step changes a row whose end_time is set.
C19_ToggleWritesOneRow ==
    /\ [][toggles' # toggles => (ClosesOneOpenSleep \/ InsertsOneOpenSleep)]_vars
    /\ [][\A i \in 1..Len(events) :
             events[i].end_time # NULL => events'[i] = events[i]]_vars


\* ------------------------------------------------ sleep time in the window

\* 19:00, 18:33 the day after and 19:00 the day after: a night of 23 h 33 min
\* followed by 27 min, 24 hours in all.
RoundInstants == {1140, 2553, 2580}

\* Time passes to one of these instants.
TickRound ==
    /\ \E t \in RoundInstants : t > clock /\ clock' = t
    /\ UNCHANGED <<events, pc, now_dt, open_sleep, resp, hist, toggles>>

\* Requests served one at a time: sleep toggles and summaries.
NextRound ==
    \/ TickRound
    \/ ToggleSleep
    \/ \E asked \in AskedHours : Summary(asked)

SpecRound == Init /\ [][NextRound]_vars

\* When a sleep ends, an open one taken to end now.
EndOrNow(e) == IF e.end_time = NULL THEN clock ELSE e.end_time

\* No two sleeps overlap in time.
SleepsDisjoint ==
    \A e, f \in OfType(events, "sleep") :
        e.id # f.id =>
            EndOrNow(e) <= f.start_time \/ EndOrNow(f) <= e.start_time

\* C20 as stated: no two sleeps overlap, an open one taken to end now, and
\* the day hours plus the night hours of a summary response are at most the
\* 24 hours of the window (hours in tenths).
C20_SleepWithinWindow ==
    /\ SleepsDisjoint
    /\ resp.op = "summary" =>
           resp.sleep_dist[1] + resp.sleep_dist[2] <= WindowHours * 10

\* C20 as amended: no two sleeps overlap, an open one taken to end now; the
\* time of the sleeps a summary counts is at most the 24 hours of the window;
\* and the day hours plus the night hours of the response, each rounded to a
\* tenth, are at most a tenth of an hour more.
C20_SleepWithinWindowRounded ==
    /\ SleepsDisjoint
    /\ resp.op = "summary" =>
           /\ TotalElapsed(CountedSleeps(resp.now), resp.now) <= WindowHours * 60
           /\ resp.sleep_dist[1] + resp.sleep_dist[2] <= WindowHours * 10 + 1

\* A summary counting a night sleep of 23 h 33 min and an open day sleep of
\* 27 min, the whole window, reported as 0.5 and 23.6 hours.
C20_Witness ==
    /\ resp.op = "summary"
    /\ Cardinality(CountedSleeps(resp.now)) = 2
    /\ TotalElapsed(CountedSleeps(resp.now), resp.now) = WindowHours * 60
    /\ resp.sleep_dist = <<5, 236>>

====
